---- MODULE Spec2Model ----
(***************************************************************************)
(* The binary installer of vella-sdk, scripts/postinstall.js (the first    *)
(* script of that file, lines 1-296): one installer process on top of a    *)
(* file system (version marker, destination tree, system temp root) and an *)
(* HTTPS server.  A behaviour is a sequence of installer runs; between two *)
(* runs the package may be upgraded.                                       *)
(*                                                                         *)
(* Strings are sequences of one-character strings, so that trim() and the  *)
(* archive name are computed rather than assumed.                          *)
(*                                                                         *)
(* Environment: the server answers every request as it likes; the file     *)
(* system may refuse mkdtemp/mkdir of the temp directory, tar may refuse   *)
(* the archive, rename may fail with an error other than ENOENT, and the   *)
(* marker may exist without being readable.  unlink of the marker, rm of   *)
(* the temp directory and writeFile of the marker succeed when called.     *)
(*                                                                         *)
(* The publisher scripts (the S3 script and the release script, which      *)
(* share the staging directory .release_tmp of one working tree) run       *)
(* before the installer in SpecRelease and alone in SpecPublish; jq, tar   *)
(* and the upload may fail; mkdir -p, cp and rm succeed.  SpecCrash adds a *)
(* kill of the installer at any point, SpecConcurrent a second installer   *)
(* process in the same project, started once its own skip check failed,    *)
(* and SpecUpgrade a change of the package version between two runs.       *)
(***************************************************************************)
EXTENDS Integers, Sequences, FiniteSets, TLC

(* ------------------------------ bounds -------------------------------- *)

\* the longest redirect chain the server produces in one run
MaxRedirects == 2
\* the number of chunks a response body is delivered in
MaxChunks == 2
\* the number of installer runs in one behaviour
MaxRuns == 2

(* -------------------------- program constants ------------------------- *)

\* binaries.length: the manifest has six entries, in this order
NumBinaries == 6

binaries == 1..NumBinaries

\* package versions; a version string has no surrounding white space
Versions == {<<"1">>, <<"2">>}

Whitespace == {" ", "\n"}

\* a file: absent (ENOENT), present but not readable (EACCES), or its content
NoFile == [code |-> "ENOENT", content |-> <<>>]
Unreadable == [code |-> "EACCES", content |-> <<>>]
File(c) == [code |-> "ok", content |-> c]

\* a destination binary: absent, or the version of the archive it came from
NoBinary == <<>>
PreExisting == <<"pre">>

\* the local tempDir before mkdtemp
NoDir == 0

\* markers somebody may have left before the first run
InitialMarkers ==
  {NoFile, Unreadable, File(<<"1">>), File(<<"1", "\n">>), File(<<"2">>)}

SUPABASE_URL == "supabase"

StatusCodes == {200, 206, 302, 404}

NoLocation == [origin |-> "", path |-> <<>>]

\* Location headers: a path reference and an absolute URL on another host
Locations ==
  { [origin |-> "", path |-> <<"mirror">>],
    [origin |-> "cdn", path |-> <<"mirror">>] }

NoRequest == [st |-> "none", url |-> NoLocation, sent |-> 0, fileOpen |-> FALSE]

\* a request whose socket is gone
ClosedRequest == [NoRequest EXCEPT !.st = "closed"]

NoHop == [from |-> NoLocation, location |-> NoLocation, to |-> NoLocation]

NoResponse ==
  [status |-> 0, hasLocation |-> FALSE, rule |-> "none", complete |-> FALSE]

(* -------------------------- the publisher ----------------------------- *)

\* publisher runs in a behaviour
MaxPublishes == 2

\* binaries[b].name: the member names of the installer's manifest
MemberNames ==
  << "android-arm64-v8a.a", "android-armeabi-v7a.a", "android-x86.a",
     "android-x86_64.a", "ios-arm64.a", "ios-arm64_x86_64-simulator.a" >>

BinName(b) == MemberNames[b]

\* the two scripts that publish an archive: to the S3 bucket, to a release
Scripts == {"s3", "gh"}

\* SOURCES of a script, "output-name:source-path"; the six source paths are
\* the six destination paths of the installer's manifest, in the same order
SOURCES(script) ==
  [i \in 1..NumBinaries |->
     [name |-> IF script = "gh" /\ i = NumBinaries
                 THEN "ios-arm64_x86_64-simulator-simulator.a"
                 ELSE MemberNames[i],
      src |-> i]]

\* package.json as the publisher finds it: with a version, with the empty
\* version, without the version field, or missing
PubPackages ==
  { [code |-> "ok", version |-> <<"1">>],
    [code |-> "ok", version |-> <<>>],
    [code |-> "noversion", version |-> <<>>],
    [code |-> "ENOENT", version |-> <<>>] }

\* jq -r '.version' package.json: its exit status and what it prints
Jq(pkg) ==
  CASE pkg.code = "ENOENT" -> [status |-> 2, out |-> <<>>]
    [] pkg.code = "noversion" -> [status |-> 0, out |-> <<"null">>]
    [] OTHER -> [status |-> 0, out |-> pkg.version]

\* .release_tmp does not exist
NoStaging == [exists |-> FALSE, files |-> {}]

\* the source trees a publisher may run in: every library built, or one missing
SourceTrees == {binaries, binaries \ {4}}

\* a working tree after a build: package.json with its version, the six
\* libraries, no staging directory, no archive
CleanTree ==
  [pkg |-> [code |-> "ok", version |-> <<"1">>], sources |-> binaries,
   staging |-> NoStaging, archives |-> {}]

\* no publisher script has run
NoPublisher ==
  [pc |-> "idle", script |-> "none", env |-> FALSE, VERSION |-> <<>>, i |-> 1,
   exit |-> 0, runs |-> 0, failed |-> "none", created |-> FALSE,
   uploaded |-> FALSE, startWork |-> CleanTree, startRemote |-> {}]

\* no second installer
NoOther ==
  [pc |-> "idle", tempDir |-> NoDir, archive |-> FALSE, extracted |-> {},
   bin |-> 1]

(* ------------------------------- state -------------------------------- *)

VARIABLES
  pkgJson,          \* "ok" or "broken": can ../package.json be required
  version,          \* the version in package.json
  versionFile,      \* .binary-version: NoFile, Unreadable or its content
  dest,             \* dest[b]: NoBinary, or the version of the archive the file came from
  destDirs,         \* the manifest entries whose destination directory exists
  tmpRoot,          \* the temp directories that exist in os.tmpdir(), by run
  archiveFile,      \* tempArchivePath: NoFile or the chunks written
  extracted,        \* the members lying in tempExtractDir
  pc,               \* the position of the async main function
  tempDir,          \* the local tempDir: NoDir or the run's directory
  exitCode,         \* process.exitCode, and the status the process ended with
  filesMovedCount,
  bin,              \* the index of the placement loop
  settled,          \* the promise of downloadWithProgress
  req,              \* the request in flight
  run,              \* the number of this run
  netRequests,      \* https.get calls of this run: one, and one per redirect followed
  start,            \* the file system as this run found it
  hop,              \* the last redirect followed
  handled,          \* the last response and the rule applied to it
  dlOutcome,        \* how the download ended
  failure,          \* what sent the run to its catch block
  present,          \* the members the archive held when placement began
  warned,           \* the members warned about as missing
  markerWritten,    \* this run wrote the marker
  skipDownload,     \* the result of shouldSkipDownload in this run
  prev,             \* the run before this one, as it ended
  pub,              \* the publisher script that runs, and its shell variables
  work,             \* the publisher's working tree
  remote,           \* the archives in the remote stores
  other             \* a second installer process in the same project

vars ==
  << pkgJson, version, versionFile, dest, destDirs, tmpRoot, archiveFile,
     extracted, pc, tempDir, exitCode, filesMovedCount, bin, settled, req,
     run, netRequests, start, hop, handled, dlOutcome, failure,
     present, warned, markerWritten, skipDownload, prev, pub, work, remote,
     other >>

fsVars == << versionFile, dest, destDirs, tmpRoot, archiveFile, extracted >>
\* what no step of the installer run changes: its package.json, and what
\* belongs to the publisher, the remote stores and the other installer
envVars == << pkgJson, version, pub, work, remote, other >>
dlVars == << settled, req, netRequests, hop, handled, dlOutcome >>
runVars == << run, start, prev >>
placeVars == << filesMovedCount, bin, present, warned >>

(* ----------------------------- functions ------------------------------ *)

RECURSIVE TrimStart(_)
TrimStart(s) ==
  IF s # <<>> /\ Head(s) \in Whitespace THEN TrimStart(Tail(s)) ELSE s

RECURSIVE TrimEnd(_)
TrimEnd(s) ==
  IF s # <<>> /\ s[Len(s)] \in Whitespace
    THEN TrimEnd(SubSeq(s, 1, Len(s) - 1))
    ELSE s

\* String.prototype.trim
Trim(s) == TrimEnd(TrimStart(s))

archiveName(v) == <<"vella-sdk-libs-">> \o v \o <<".tar.gz">>

archiveUrl(v) == [origin |-> SUPABASE_URL, path |-> archiveName(v)]

\* download(res.headers.location): the Location header taken as it is
ResolveUrl_NoBase(location, currentUrl) == location

\* new URL(location, currentUrl)
ResolveUrl(location, currentUrl) ==
  IF location.origin # ""
    THEN location
    ELSE [origin |-> currentUrl.origin, path |-> location.path]

\* shouldSkipDownload without storedVersion.trim()
ShouldSkipDownload_NoTrim(marker, files, v) ==
  IF marker.code # "ok" THEN FALSE
  ELSE IF marker.content # v THEN FALSE
  ELSE \A b \in binaries : files[b] # NoBinary

\* shouldSkipDownload without the loop over the destination files
ShouldSkipDownload_MarkerOnly(marker, files, v) ==
  IF marker.code # "ok" THEN FALSE
  ELSE Trim(marker.content) = v

\* shouldSkipDownload
ShouldSkipDownload(marker, files, v) ==
  IF marker.code # "ok" THEN FALSE
  ELSE IF Trim(marker.content) # v THEN FALSE
  ELSE \A b \in binaries : files[b] # NoBinary

\* the response callback, taking every 2xx status for a success
ClassifyResponse_Any2xx(status, location) ==
  IF status >= 300 /\ status < 400 /\ location # NoLocation THEN "redirect"
  ELSE IF status < 200 \/ status >= 300 THEN "fail"
  ELSE "ok"

\* the rule the response callback applies: "redirect", "fail" or "ok"
ClassifyResponse(status, location) ==
  IF status >= 300 /\ status < 400 /\ location # NoLocation THEN "redirect"
  ELSE IF status # 200 THEN "fail"
  ELSE "ok"

\* the body the server sends from url when asked for the archive of version
\* v, as MaxChunks chunks
Body(url, v) == [k \in 1..MaxChunks |-> <<"chunk", url, v, k>>]

\* the version of the archive a temp archive file holds
ArchiveVersion(f) == f.content[1][3]

\* the record step writing the archive's name
MarkerContent_ArchiveName(v) == archiveName(v)

\* what the record step writes into the marker
MarkerContent(v) == v

\* the record step asking for every member
ShouldRecord_AllMoved(count) == count = NumBinaries

\* the record step writes the marker when some member was moved
ShouldRecord(count) == count > 0

\* mkdtemp with the same name whatever exists
MkdtempName_Fixed(existing) == 1

\* mkdtemp(prefix): a directory name that does not exist yet
MkdtempName(existing) ==
  CHOOSE d \in 1..(MaxRuns + 1) :
    d \notin existing /\ \A e \in 1..(d - 1) : e \in existing

\* the archives published under the name the installer asks for
Served(v) == {o \in remote : o.name = archiveName(v)}

\* the manifest entries whose member an archive holds
Installable(o) ==
  {b \in binaries : \E m \in o.members : m.name = BinName(b)}

\* what tar.x may find in the archive fetched for version v
ArchiveContents(v) ==
  IF Served(v) = {}
    THEN SUBSET binaries
    ELSE {Installable(o) : o \in Served(v)}

(* ------------------------------ Init ---------------------------------- *)

\* a project in any state: some marker, any of the binaries already there
InitProject ==
  /\ work = CleanTree
  /\ pkgJson \in {"ok", "broken"}
  /\ versionFile \in InitialMarkers
  /\ dest \in [binaries -> {NoBinary, PreExisting}]

\* a project the installer has never run in
InitFresh ==
  /\ work = CleanTree
  /\ pkgJson = "ok"
  /\ versionFile = NoFile
  /\ dest = [b \in binaries |-> NoBinary]

InitRun ==
  /\ version = <<"1">>
  /\ destDirs = {b \in binaries : dest[b] # NoBinary}
  /\ tmpRoot = {}
  /\ archiveFile = NoFile
  /\ extracted = {}
  /\ pc = "load"
  /\ tempDir = NoDir
  /\ exitCode = 0
  /\ filesMovedCount = 0
  /\ bin = 1
  /\ settled = "none"
  /\ req = NoRequest
  /\ run = 1
  /\ netRequests = 0
  /\ start = [versionFile |-> versionFile, dest |-> dest,
              destDirs |-> destDirs, tmpRoot |-> tmpRoot]
  /\ hop = NoHop
  /\ handled = NoResponse
  /\ dlOutcome = "none"
  /\ failure = "none"
  /\ present = {}
  /\ warned = {}
  /\ markerWritten = FALSE
  /\ skipDownload = FALSE
  /\ prev = [ok |-> FALSE]
  /\ pub = NoPublisher
  /\ remote = {}
  /\ other = NoOther

(* ------------------------- the main function -------------------------- *)

\* require('../package.json').version, process.exit(1) when it throws
LoadVersion ==
  /\ pc = "load"
  /\ IF pkgJson = "ok"
       THEN pc' = "check" /\ exitCode' = exitCode
       ELSE pc' = "exited" /\ exitCode' = 1
  /\ UNCHANGED << envVars, fsVars, dlVars, runVars, placeVars, tempDir,
                  failure, markerWritten, skipDownload >>

\* const skipDownload = await shouldSkipDownload(); if (skipDownload) return
CheckSkip ==
  /\ pc = "check"
  /\ skipDownload' = ShouldSkipDownload(versionFile, dest, version)
  /\ pc' = IF skipDownload' THEN "done" ELSE "mkdtemp"
  /\ UNCHANGED << envVars, fsVars, dlVars, runVars, placeVars, tempDir,
                  exitCode, failure, markerWritten >>

\* tempDir = await fs.promises.mkdtemp(...): a directory no other run has
Mkdtemp ==
  /\ pc = "mkdtemp"
  /\ \/ /\ tempDir' = MkdtempName(tmpRoot)
        /\ tmpRoot' = tmpRoot \cup {tempDir'}
        /\ pc' = "mkdir"
        /\ UNCHANGED failure
     \/ /\ pc' = "catch"
        /\ failure' = "mkdtemp"
        /\ UNCHANGED << tempDir, tmpRoot >>
  /\ UNCHANGED << envVars, versionFile, dest, destDirs, archiveFile, extracted,
                  dlVars, runVars, placeVars, exitCode, markerWritten,
                  skipDownload >>

\* await fs.promises.mkdir(tempExtractDir)
MkdirExtracted ==
  /\ pc = "mkdir"
  /\ \/ pc' = "download" /\ UNCHANGED failure
     \/ pc' = "catch" /\ failure' = "mkdir"
  /\ UNCHANGED << envVars, fsVars, dlVars, runVars, placeVars, tempDir,
                  exitCode, markerWritten, skipDownload >>

\* downloadWithProgress(archiveUrl, tempArchivePath): download(url)
DownloadWithProgress ==
  /\ pc = "download"
  /\ settled' = "pending"
  /\ req' = [st |-> "sent", url |-> archiveUrl(version), sent |-> 0,
             fileOpen |-> FALSE]
  /\ netRequests' = netRequests + 1
  /\ pc' = "await"
  /\ UNCHANGED << envVars, fsVars, runVars, placeVars, tempDir, exitCode,
                  failure, markerWritten, skipDownload, hop,
                  handled, dlOutcome >>

\* the main function going on to the extraction without waiting for the
\* promise
AwaitDownload_NoWait ==
  /\ pc = "await"
  /\ pc' = "extract"
  /\ UNCHANGED << envVars, fsVars, runVars, placeVars, tempDir, exitCode,
                  markerWritten, skipDownload, dlVars, failure >>

\* await downloadWithProgress(...): the promise has settled; what was
\* recorded about the responses is dropped with the request
AwaitDownload ==
  /\ pc = "await"
  /\ \/ settled = "resolved" /\ pc' = "extract" /\ UNCHANGED failure
     \/ settled = "rejected" /\ pc' = "catch" /\ failure' = "download"
  /\ IF req.st = "closed"
       THEN hop' = NoHop /\ handled' = NoResponse
       ELSE UNCHANGED << hop, handled >>
  /\ UNCHANGED << envVars, fsVars, runVars, placeVars, tempDir, exitCode,
                  markerWritten, skipDownload, settled, req, netRequests, dlOutcome >>

\* await tar.x({file: tempArchivePath, C: tempExtractDir}): the archive holds
\* what was published under its name, or, when the server is not fed by a
\* publisher of the model, some of the manifest's members; or tar rejects it
Extract ==
  /\ pc = "extract"
  /\ \/ \E members \in ArchiveContents(version) :
          /\ extracted' = members
          /\ present' = members
          /\ pc' = "place"
          /\ UNCHANGED failure
     \/ /\ pc' = "catch"
        /\ failure' = "extract"
        /\ UNCHANGED << extracted, present >>
  /\ filesMovedCount' = 0
  /\ bin' = 1
  /\ UNCHANGED << envVars, versionFile, dest, destDirs, tmpRoot, archiveFile,
                  dlVars, runVars, warned, tempDir, exitCode, markerWritten,
                  skipDownload >>

\* the loop goes on to the next manifest entry, or to the record step
NextBin(b) == IF b = NumBinaries THEN "record" ELSE "place"

\* access and rename succeeded: the member is now the destination file
PlacePresent ==
  /\ bin \in extracted
  /\ dest' = [dest EXCEPT ![bin] = ArchiveVersion(archiveFile)]
  /\ extracted' = extracted \ {bin}
  /\ filesMovedCount' = filesMovedCount + 1
  /\ bin' = bin + 1
  /\ pc' = NextBin(bin)
  /\ UNCHANGED << warned, failure >>

\* rename failed with an error other than ENOENT: throw
PlaceError ==
  /\ bin \in extracted
  /\ pc' = "catch"
  /\ failure' = "move"
  /\ UNCHANGED << dest, extracted, filesMovedCount, bin, warned >>

\* access failed with ENOENT, and the error is thrown like any other
PlaceAbsent_Throws ==
  /\ bin \notin extracted
  /\ pc' = "catch"
  /\ failure' = "move"
  /\ UNCHANGED << dest, extracted, filesMovedCount, bin, warned >>

\* access failed with ENOENT: warn and go on
PlaceAbsent ==
  /\ bin \notin extracted
  /\ warned' = warned \cup {bin}
  /\ bin' = bin + 1
  /\ pc' = NextBin(bin)
  /\ UNCHANGED << dest, extracted, filesMovedCount, failure >>

\* the loop writing the marker with each member it moves
PlaceMember_MarkerPerMember ==
  /\ pc = "place"
  /\ destDirs' = destDirs \cup {bin}
  /\ (PlacePresent \/ PlaceError \/ PlaceAbsent)
  /\ versionFile' = IF bin \in extracted THEN File(version) ELSE versionFile
  /\ UNCHANGED << envVars, tmpRoot, archiveFile, dlVars, runVars,
                  present, tempDir, exitCode, markerWritten, skipDownload >>

\* one iteration of for (const bin of binaries)
PlaceMember ==
  /\ pc = "place"
  /\ destDirs' = destDirs \cup {bin}
  /\ (PlacePresent \/ PlaceError \/ PlaceAbsent)
  /\ UNCHANGED << envVars, versionFile, tmpRoot, archiveFile, dlVars, runVars,
                  present, tempDir, exitCode, markerWritten, skipDownload >>

\* the record step writing the marker before it looks at the count
Record_WritesFirst ==
  /\ pc = "record"
  /\ versionFile' = File(MarkerContent(version))
  /\ IF ShouldRecord(filesMovedCount)
       THEN pc' = "finally" /\ markerWritten' = TRUE /\ UNCHANGED failure
       ELSE pc' = "catch" /\ failure' = "nofiles" /\ UNCHANGED markerWritten
  /\ UNCHANGED << envVars, dest, destDirs, tmpRoot, archiveFile, extracted,
                  dlVars, runVars, placeVars, tempDir, exitCode, skipDownload >>

\* if (filesMovedCount > 0) writeFile(versionFilePath, version) else throw
Record ==
  /\ pc = "record"
  /\ IF ShouldRecord(filesMovedCount)
       THEN /\ versionFile' = File(MarkerContent(version))
            /\ markerWritten' = TRUE
            /\ pc' = "finally"
            /\ UNCHANGED failure
       ELSE /\ pc' = "catch"
            /\ failure' = "nofiles"
            /\ UNCHANGED << versionFile, markerWritten >>
  /\ UNCHANGED << envVars, dest, destDirs, tmpRoot, archiveFile, extracted,
                  dlVars, runVars, placeVars, tempDir, exitCode, skipDownload >>

\* a catch block that also removes the destination files
Catch_ClearsDestinations ==
  /\ pc = "catch"
  /\ exitCode' = 1
  /\ versionFile' = NoFile
  /\ dest' = [b \in binaries |-> NoBinary]
  /\ pc' = "finally"
  /\ UNCHANGED << envVars, destDirs, tmpRoot, archiveFile, extracted,
                  dlVars, runVars, placeVars, tempDir, failure, markerWritten,
                  skipDownload >>

\* catch (err): process.exitCode = 1 and unlink the marker
Catch ==
  /\ pc = "catch"
  /\ exitCode' = 1
  /\ versionFile' = NoFile
  /\ pc' = "finally"
  /\ UNCHANGED << envVars, dest, destDirs, tmpRoot, archiveFile, extracted,
                  dlVars, runVars, placeVars, tempDir, failure, markerWritten,
                  skipDownload >>

\* finally: if (tempDir) rm(tempDir, {recursive, force})
Finally ==
  /\ pc = "finally"
  /\ IF tempDir # NoDir
       THEN /\ tmpRoot' = tmpRoot \ {tempDir}
            /\ archiveFile' = NoFile
            /\ extracted' = {}
       ELSE UNCHANGED << tmpRoot, archiveFile, extracted >>
  /\ pc' = "done"
  /\ UNCHANGED << envVars, versionFile, dest, destDirs, dlVars, runVars,
                  placeVars, tempDir, exitCode, failure, markerWritten,
                  skipDownload >>

(* ---------------------- the request and its events -------------------- *)

Reject(how) ==
  /\ settled' = IF settled = "pending" THEN "rejected" ELSE settled
  /\ dlOutcome' = IF settled = "pending" THEN how ELSE dlOutcome

\* the response callback of https.get, for a response the server chooses
Response(status, location) ==
  /\ req.st = "sent"
  /\ handled' = [status |-> status, hasLocation |-> location # NoLocation,
                 rule |-> ClassifyResponse(status, location),
                 complete |-> FALSE]
  /\ CASE handled'.rule = "redirect" ->
            /\ netRequests <= MaxRedirects
            /\ hop' = [from |-> req.url, location |-> location,
                       to |-> ResolveUrl(location, req.url)]
            /\ req' = [req EXCEPT !.url = hop'.to]
            /\ netRequests' = netRequests + 1
            /\ UNCHANGED << settled, dlOutcome, archiveFile >>
       [] handled'.rule = "fail" ->
            /\ Reject("status")
            /\ req' = ClosedRequest
            /\ UNCHANGED << hop, netRequests, archiveFile >>
       [] handled'.rule = "ok" ->
            /\ IF tempDir \in tmpRoot
                 THEN /\ archiveFile' = File(<<>>)
                      /\ req' = [req EXCEPT !.st = "body", !.fileOpen = TRUE]
                      /\ UNCHANGED << settled, dlOutcome >>
                 ELSE /\ Reject("file")
                      /\ req' = [req EXCEPT !.st = "body"]
                      /\ UNCHANGED archiveFile
            /\ UNCHANGED << hop, netRequests >>
  /\ UNCHANGED << envVars, versionFile, dest, destDirs, tmpRoot, extracted,
                  runVars, placeVars, pc, tempDir, exitCode, failure,
                  markerWritten, skipDownload >>

\* res.pipe(file): a chunk of the body arrives and is written
Data ==
  /\ req.st = "body"
  /\ req.sent < MaxChunks
  /\ req' = [req EXCEPT !.sent = req.sent + 1]
  /\ archiveFile' =
       IF req.fileOpen /\ archiveFile # NoFile
         THEN File(Append(archiveFile.content,
                     Body(req.url, version)[req.sent + 1]))
         ELSE archiveFile
  /\ UNCHANGED << envVars, versionFile, dest, destDirs, tmpRoot, extracted,
                  runVars, placeVars, pc, tempDir, exitCode, failure,
                  markerWritten, skipDownload, settled, netRequests, hop, handled, dlOutcome >>

\* the body ends: file.end(), 'finish', file.close(), resolve()
End ==
  /\ req.st = "body"
  /\ req.sent = MaxChunks
  /\ req' = ClosedRequest
  /\ IF req.fileOpen
       THEN /\ settled' = IF settled = "pending" THEN "resolved" ELSE settled
            /\ dlOutcome' = IF settled = "pending" THEN "resolved" ELSE dlOutcome
       ELSE UNCHANGED << settled, dlOutcome >>
  /\ handled' = [handled EXCEPT !.complete = TRUE]
  /\ UNCHANGED << envVars, fsVars, runVars, placeVars, pc, tempDir, exitCode,
                  failure, markerWritten, skipDownload, netRequests, hop >>

\* the connection closes before the body is complete: res is destroyed, and
\* neither res nor the request has a listener that runs
Aborted ==
  /\ req.st = "body"
  /\ req.sent < MaxChunks
  /\ req' = ClosedRequest
  /\ dlOutcome' = IF settled = "pending" THEN "aborted" ELSE dlOutcome
  /\ UNCHANGED << envVars, fsVars, runVars, placeVars, pc, tempDir, exitCode,
                  failure, markerWritten, skipDownload, settled, netRequests, hop, handled >>

\* .on('error'): the request fails
RequestError ==
  /\ req.st \in {"sent", "body"}
  /\ Reject("network")
  /\ req' = ClosedRequest
  /\ UNCHANGED << envVars, fsVars, runVars, placeVars, pc, tempDir, exitCode,
                  failure, markerWritten, skipDownload, netRequests, hop, handled >>

\* .on('timeout'): reject; the request itself is left as it is
Timeout ==
  /\ req.st \in {"sent", "body"}
  /\ settled = "pending"
  /\ Reject("timeout")
  /\ UNCHANGED << envVars, fsVars, runVars, placeVars, pc, tempDir, exitCode,
                  failure, markerWritten, skipDownload, req, netRequests, hop, handled >>

\* file.on('error'): unlink the incomplete file and reject
FileError ==
  /\ req.st = "body"
  /\ req.fileOpen
  /\ archiveFile # NoFile
  /\ archiveFile' = NoFile
  /\ req' = [req EXCEPT !.fileOpen = FALSE]
  /\ Reject("file")
  /\ UNCHANGED << envVars, versionFile, dest, destDirs, tmpRoot, extracted,
                  runVars, placeVars, pc, tempDir, exitCode, failure,
                  markerWritten, skipDownload, netRequests, hop,
                  handled >>

(* ------------------------ the process and its runs -------------------- *)

\* the main function has returned and nothing is left on the event loop
Exit ==
  /\ pc = "done"
  /\ req.st \in {"none", "closed"}
  /\ pc' = "exited"
  /\ UNCHANGED << envVars, fsVars, dlVars, runVars, placeVars, tempDir,
                  exitCode, failure, markerWritten, skipDownload >>

\* the main function waits for a promise nothing will settle any more, and
\* nothing is left on the event loop: node ends with process.exitCode
ExitPending ==
  /\ pc = "await"
  /\ settled = "pending"
  /\ req.st = "closed"
  /\ pc' = "exited"
  /\ UNCHANGED << envVars, fsVars, dlVars, runVars, placeVars, tempDir,
                  exitCode, failure, markerWritten, skipDownload >>

\* the process is killed (a signal, a power cut): it ends where it is, and
\* neither the catch block nor the finally block runs
Crash ==
  /\ pc \notin {"load", "exited", "killed"}
  /\ pc' = "killed"
  /\ req' = IF req.st = "none" THEN req ELSE ClosedRequest
  /\ UNCHANGED << envVars, fsVars, runVars, placeVars, tempDir, exitCode,
                  failure, markerWritten, skipDownload, settled, netRequests,
                  hop, handled, dlOutcome >>

\* a new installer process starts in the project the last one left
StartNextRun ==
  /\ pc = "exited"
  /\ run < MaxRuns
  /\ prev' = [ok |-> exitCode = 0 /\ markerWritten]
  /\ run' = run + 1
  /\ start' = [versionFile |-> versionFile, dest |-> dest,
               destDirs |-> destDirs, tmpRoot |-> tmpRoot]
  /\ archiveFile' = NoFile
  /\ extracted' = {}
  /\ pc' = "load"
  /\ tempDir' = NoDir
  /\ exitCode' = 0
  /\ filesMovedCount' = 0
  /\ bin' = 1
  /\ settled' = "none"
  /\ req' = NoRequest
  /\ netRequests' = 0
  /\ hop' = NoHop
  /\ handled' = NoResponse
  /\ dlOutcome' = "none"
  /\ failure' = "none"
  /\ present' = {}
  /\ warned' = {}
  /\ markerWritten' = FALSE
  /\ skipDownload' = FALSE
  /\ UNCHANGED << pkgJson, pub, work, remote, other, versionFile, dest,
                  destDirs, tmpRoot >>

\* the installer is invoked again: same package, same project
Reinvoke ==
  /\ StartNextRun
  /\ UNCHANGED version

\* the package is replaced by another version, whose install script runs
Upgrade ==
  /\ StartNextRun
  /\ version' \in Versions \ {version}

\* the steps of one run after the version is loaded
RunSteps ==
  \/ CheckSkip
  \/ Mkdtemp
  \/ MkdirExtracted
  \/ DownloadWithProgress
  \/ AwaitDownload
  \/ Extract
  \/ PlaceMember
  \/ Record
  \/ Catch
  \/ Finally
  \/ \E status \in StatusCodes, location \in Locations \cup {NoLocation} :
       Response(status, location)
  \/ Data
  \/ End
  \/ Aborted
  \/ RequestError
  \/ Timeout
  \/ FileError
  \/ Exit
  \/ ExitPending

\* the steps of one run
Run == LoadVersion \/ RunSteps

Init == InitProject /\ InitRun

\* one installer run in a project in any state
Spec == Init /\ [][Run]_vars

Next == Run \/ Reinvoke

InitRerun == InitFresh /\ InitRun

\* installer runs one after another, from a fresh project
SpecRerun == InitRerun /\ [][Next]_vars

\* installer runs one after another, the package upgraded or not in between
NextUpgrade == Run \/ Reinvoke \/ Upgrade

SpecUpgrade == InitRerun /\ [][NextUpgrade]_vars

\* one installer run that may be killed at any point
NextCrash == Run \/ Crash

SpecCrash == Init /\ [][NextCrash]_vars

(* ------------------------ the publisher scripts ----------------------- *)

\* what no step of a publisher script changes
installVars ==
  << pkgJson, version, fsVars, pc, tempDir, exitCode, dlVars, runVars,
     placeVars, failure, markerWritten, skipDownload, other >>

\* exit with a status: exit 1, or set -e after a command that failed
PubExit(status, why) ==
  [pub EXCEPT !.pc = "exited", !.exit = status, !.failed = why]

\* ARCHIVE_NAME="vella-sdk-libs-$VERSION.tar.gz"
ARCHIVE_NAME == archiveName(pub.VERSION)

\* a script is started in the working tree, with or without the four
\* environment variables, before the package is installed
PubStart(script, env) ==
  /\ pub.pc \in {"idle", "exited"}
  /\ pub.runs < MaxPublishes
  /\ pc = "load"
  /\ script = "gh" => env
  /\ pub' = [pc |-> IF script = "s3" THEN "env" ELSE "version",
             script |-> script, env |-> env, VERSION |-> <<>>, i |-> 1,
             exit |-> 0, runs |-> pub.runs + 1, failed |-> "none",
             created |-> FALSE, uploaded |-> FALSE, startWork |-> work,
             startRemote |-> remote]
  /\ UNCHANGED << work, remote, installVars >>

\* if [ -z "$SUPABASE_S3_ENDPOINT" ] || ... ; then exit 1
PubCheckEnv ==
  /\ pub.pc = "env"
  /\ pub' = IF pub.env THEN [pub EXCEPT !.pc = "version"]
                       ELSE PubExit(1, "env")
  /\ UNCHANGED << work, remote, installVars >>

\* VERSION=$(jq -r '.version' package.json); the S3 script then tests -z
PubReadVersion ==
  /\ pub.pc = "version"
  /\ LET j == Jq(work.pkg) IN
       pub' = IF j.status # 0
                THEN PubExit(j.status, "version")
                ELSE IF pub.script = "s3" /\ j.out = <<>>
                  THEN PubExit(1, "version")
                  ELSE [pub EXCEPT !.VERSION = j.out, !.pc = "mkdir"]
  /\ UNCHANGED << work, remote, installVars >>

\* mkdir -p "$TMP_DIR": what an earlier run left in it stays
PubMkdir ==
  /\ pub.pc = "mkdir"
  /\ work' = [work EXCEPT !.staging.exists = TRUE]
  /\ pub' = [pub EXCEPT !.pc = "copy"]
  /\ UNCHANGED << remote, installVars >>

\* the copy loop going on past a source that is missing
PubCopy_SkipMissing ==
  /\ pub.pc = "copy"
  /\ LET e == SOURCES(pub.script)[pub.i] IN
       work' = IF e.src \in work.sources
                 THEN [work EXCEPT !.staging.files =
                         {f \in @ : f.name # e.name} \cup {e}]
                 ELSE work
  /\ pub' = [pub EXCEPT !.i = @ + 1,
                        !.pc = IF pub.i = NumBinaries THEN "tar" ELSE "copy"]
  /\ UNCHANGED << remote, installVars >>

\* one iteration of the copy loop: cp, or rm -rf "$TMP_DIR" and exit 1
PubCopy ==
  /\ pub.pc = "copy"
  /\ LET e == SOURCES(pub.script)[pub.i] IN
       IF e.src \in work.sources
         THEN /\ work' = [work EXCEPT !.staging.files =
                            {f \in @ : f.name # e.name} \cup {e}]
              /\ pub' = [pub EXCEPT
                           !.i = @ + 1,
                           !.pc = IF pub.i = NumBinaries THEN "tar" ELSE "copy"]
         ELSE /\ work' = [work EXCEPT !.staging = NoStaging]
              /\ pub' = PubExit(1, "source")
  /\ UNCHANGED << remote, installVars >>

\* tar -czf "$ARCHIVE_NAME" -C "$TMP_DIR" . : every file of the staging
\* directory goes into the archive; or tar fails and set -e ends the script
PubTar ==
  /\ pub.pc = "tar"
  /\ \/ /\ work' = [work EXCEPT !.archives =
                      {a \in @ : a.name # ARCHIVE_NAME} \cup
                      {[name |-> ARCHIVE_NAME, members |-> work.staging.files]}]
        /\ pub' = [pub EXCEPT !.pc = "upload", !.created = TRUE]
     \/ /\ pub' = PubExit(2, "tar")
        /\ UNCHANGED work
  /\ UNCHANGED << remote, installVars >>

\* aws s3 cp (the object is created or overwritten) or gh release create
\* (refused when the release exists); a failure ends the script by set -e
PubUpload ==
  /\ pub.pc = "upload"
  /\ \/ \E a \in work.archives :
          /\ a.name = ARCHIVE_NAME
          /\ pub.script = "gh" =>
               ~\E r \in remote : r.store = "gh" /\ r.name = ARCHIVE_NAME
          /\ remote' =
               {r \in remote : ~(r.store = pub.script /\ r.name = ARCHIVE_NAME)}
               \cup {[store |-> pub.script, name |-> ARCHIVE_NAME,
                      members |-> a.members]}
          /\ pub' = [pub EXCEPT !.pc = "cleanup", !.uploaded = TRUE]
     \/ /\ pub' = PubExit(1, "upload")
        /\ UNCHANGED remote
  /\ UNCHANGED << work, installVars >>

\* rm -rf "$TMP_DIR"; rm "$ARCHIVE_NAME"
PubCleanup ==
  /\ pub.pc = "cleanup"
  /\ work' = [work EXCEPT !.staging = NoStaging,
                          !.archives = {a \in @ : a.name # ARCHIVE_NAME}]
  /\ pub' = PubExit(0, "none")
  /\ UNCHANGED << remote, installVars >>

\* the steps of the publisher scripts
PubNext ==
  \/ \E script \in Scripts, env \in BOOLEAN : PubStart(script, env)
  \/ PubCheckEnv
  \/ PubReadVersion
  \/ PubMkdir
  \/ PubCopy
  \/ PubTar
  \/ PubUpload
  \/ PubCleanup

\* a working tree in any state of its package.json and its libraries
InitTree ==
  /\ work \in {[CleanTree EXCEPT !.pkg = p, !.sources = t] :
                 p \in PubPackages, t \in SourceTrees}
  /\ pkgJson = "ok"
  /\ versionFile = NoFile
  /\ dest = [b \in binaries |-> NoBinary]

InitPublish == InitTree /\ InitRun

\* publisher runs one after another in one working tree
SpecPublish == InitPublish /\ [][PubNext]_vars

\* the installer starts while no publisher script is running
InstallAfterPublish ==
  /\ pub.pc \in {"idle", "exited"}
  /\ LoadVersion

NextRelease == PubNext \/ InstallAfterPublish \/ RunSteps

\* a project the package was shipped to: no marker or the marker of this or
\* of another version, no library or all of them
InitShipped ==
  /\ work = CleanTree
  /\ pkgJson = "ok"
  /\ versionFile \in {NoFile, File(<<"1">>), File(<<"2">>)}
  /\ dest \in {[b \in binaries |-> NoBinary], [b \in binaries |-> PreExisting]}

InitRelease == InitShipped /\ InitRun

\* publisher runs, then an installer run
SpecRelease == InitRelease /\ [][NextRelease]_vars

(* ------------------- a second installer, concurrently ----------------- *)

\* what no step of the second installer changes
mainVars ==
  << pkgJson, version, pub, work, remote, archiveFile, extracted, pc, tempDir,
     exitCode, dlVars, runVars, placeVars, failure, markerWritten,
     skipDownload >>

\* the second process finds the install up to date and ends
OtherSkip ==
  /\ other.pc = "idle"
  /\ ShouldSkipDownload(versionFile, dest, version)
  /\ other' = [other EXCEPT !.pc = "done"]
  /\ UNCHANGED << mainVars, fsVars >>

\* the second process finds the install not up to date, and then
\* tempDir = await fs.promises.mkdtemp(...)
OtherMkdtemp ==
  /\ other.pc = "idle"
  /\ ~ShouldSkipDownload(versionFile, dest, version)
  /\ other' = [other EXCEPT !.pc = "download",
                            !.tempDir = MkdtempName(tmpRoot)]
  /\ tmpRoot' = tmpRoot \cup {other'.tempDir}
  /\ UNCHANGED << mainVars, versionFile, dest, destDirs >>

\* its download: the archive is written into its temp directory, or the
\* download fails
OtherDownload ==
  /\ other.pc = "download"
  /\ \/ other' = [other EXCEPT !.pc = "extract", !.archive = TRUE]
     \/ other' = [other EXCEPT !.pc = "catch"]
  /\ UNCHANGED << mainVars, fsVars >>

\* its tar.x, into the extracted directory of its temp directory
OtherExtract ==
  /\ other.pc = "extract"
  /\ other' = [other EXCEPT !.pc = "place", !.extracted = binaries, !.bin = 1]
  /\ UNCHANGED << mainVars, fsVars >>

\* one iteration of its placement loop
OtherPlace ==
  /\ other.pc = "place"
  /\ dest' = [dest EXCEPT ![other.bin] = version]
  /\ destDirs' = destDirs \cup {other.bin}
  /\ other' = [other EXCEPT
                 !.extracted = @ \ {other.bin},
                 !.bin = @ + 1,
                 !.pc = IF other.bin = NumBinaries THEN "record" ELSE "place"]
  /\ UNCHANGED << mainVars, versionFile, tmpRoot >>

\* its record step
OtherRecord ==
  /\ other.pc = "record"
  /\ versionFile' = File(MarkerContent(version))
  /\ other' = [other EXCEPT !.pc = "finally"]
  /\ UNCHANGED << mainVars, dest, destDirs, tmpRoot >>

\* its catch block
OtherCatch ==
  /\ other.pc = "catch"
  /\ versionFile' = NoFile
  /\ other' = [other EXCEPT !.pc = "finally"]
  /\ UNCHANGED << mainVars, dest, destDirs, tmpRoot >>

\* its finally block: rm(tempDir, {recursive, force})
OtherFinally ==
  /\ other.pc = "finally"
  /\ tmpRoot' = tmpRoot \ {other.tempDir}
  /\ other' = [other EXCEPT !.pc = "done", !.archive = FALSE,
                            !.extracted = {}]
  /\ UNCHANGED << mainVars, versionFile, dest, destDirs >>

OtherNext ==
  \/ OtherSkip
  \/ OtherMkdtemp
  \/ OtherDownload
  \/ OtherExtract
  \/ OtherPlace
  \/ OtherRecord
  \/ OtherCatch
  \/ OtherFinally

NextConcurrent == Run \/ OtherNext

\* two installer processes at the same time in a fresh project
SpecConcurrent == InitRerun /\ [][NextConcurrent]_vars

(* ------------------------------ claims -------------------------------- *)

\* the run found a marker that, trimmed, is the current version, and all six
\* destination files
StartUpToDate ==
  /\ start.versionFile.code = "ok"
  /\ Trim(start.versionFile.content) = version
  /\ \A b \in binaries : start.dest[b] # NoBinary

\* nothing on disk differs from what the run found
NothingWritten ==
  /\ versionFile = start.versionFile
  /\ dest = start.dest
  /\ destDirs = start.destDirs
  /\ tmpRoot = start.tmpRoot
  /\ archiveFile = NoFile
  /\ extracted = {}

\* C1: a run that finds the marker (trimmed) equal to the current version and
\* all six destination files issues no request, creates no temp directory,
\* writes and deletes nothing, and ends with status 0.
C1_SkipHasNoEffect ==
  (pkgJson = "ok" /\ StartUpToDate) =>
    /\ netRequests = 0
    /\ tempDir = NoDir
    /\ NothingWritten
    /\ exitCode = 0
    /\ pc \in {"load", "check", "done", "exited"}

\* C1 witness: a run that skipped on a marker with a trailing newline
C1_Witness ==
  /\ pc = "exited"
  /\ pkgJson = "ok"
  /\ StartUpToDate
  /\ start.versionFile = File(<<"1", "\n">>)
  /\ skipDownload
  /\ exitCode = 0

FatalFailure ==
  \/ failure # "none"
  \/ dlOutcome \in {"status", "network", "timeout", "file", "aborted"}

\* C4 (for a run whose version loaded): a run that failed leaves the marker
\* deleted and ends with a non-zero status, so the next run does not skip.
C4_FatalFailureDeletesMarker ==
  (pc = "exited" /\ pkgJson = "ok" /\ FatalFailure) =>
    /\ versionFile = NoFile
    /\ exitCode # 0
    /\ ~ShouldSkipDownload(versionFile, dest, version)

\* C5: a download that ends with a failure status or a network error leaves
\* the marker absent or as it was, places no destination file, and the run
\* ends with a non-zero status.
C5_FailedDownloadExitsNonZero ==
  (pc = "exited" /\ dlOutcome \in {"status", "network", "aborted"}) =>
    /\ versionFile \in {NoFile, start.versionFile}
    /\ dest = start.dest
    /\ exitCode # 0

C7_PlacementPerMember ==
  /\ pc \in {"place", "record"} =>
       LET tried == 1..(bin - 1) IN
         /\ \A b \in tried \cap present :
              dest[b] = version /\ b \notin extracted /\ b \in destDirs
         /\ \A b \in binaries \ (tried \cap present) : dest[b] = start.dest[b]
         /\ warned = tried \ present
         /\ filesMovedCount = Cardinality(tried \cap present)
  /\ pc = "record" => bin = NumBinaries + 1
  /\ failure = "move" => bin \in present

\* C7 witness: the archive held the second and the fifth member only
C7_Witness ==
  /\ pc = "record"
  /\ present = {2, 5}
  /\ filesMovedCount = 2
  /\ dest[2] = version /\ dest[5] = version
  /\ warned = {1, 3, 4, 6}

\* C8: once the process has ended, the temp directory the run created is
\* gone.
C8_TempDirRemoved ==
  (pc = "exited" /\ tempDir # NoDir) => tempDir \notin tmpRoot

\* the URL a redirect leads to: the Location header, resolved against the URL
\* that answered with it
RedirectTarget(h) ==
  IF h.location.origin # ""
    THEN h.location
    ELSE [origin |-> h.from.origin, path |-> h.location.path]

\* the URL the last request of the chain went to
FinalUrl == IF hop = NoHop THEN archiveUrl(version) ELSE hop.to

\* C9: every redirect is followed to its Location resolved against the URL
\* that produced it, and when the chain ends in a 200 whose body arrives
\* whole (no timeout, no write error), the download resolves and the temp
\* archive file holds exactly the body of that last response.
C9_RedirectChainDownloads ==
  /\ hop # NoHop =>
       /\ hop.to = RedirectTarget(hop)
       /\ req.st \in {"sent", "body"} => req.url = hop.to
  /\ (handled.complete /\ dlOutcome \notin {"timeout", "file"}) =>
       /\ settled = "resolved"
       /\ archiveFile = File(Body(FinalUrl, version))

\* C9 witness: two redirects, the second a path resolved on the other host,
\* then a 200 whose body was written
C9_Witness ==
  /\ handled.complete
  /\ settled = "resolved"
  /\ netRequests = 3
  /\ hop.from.origin = "cdn"
  /\ hop.location.origin = ""
  /\ archiveFile = File(Body([origin |-> "cdn", path |-> <<"mirror">>], version))

\* C10 as claimed: a response makes the download fail only when its status is
\* neither 2xx nor 3xx, and a 2xx status is a success.
C10_FailsOnlyOutside2xx3xx ==
  /\ handled.rule = "fail" => (handled.status < 200 \/ handled.status >= 400)
  /\ (handled.status >= 200 /\ handled.status < 300) => handled.rule = "ok"

\* C10 amended: a response is handled by exactly one rule: a 3xx with a
\* Location header is followed by a new request; status 200 has its body
\* written to the temp file; every other status (another 2xx, a 3xx without
\* Location, 4xx, 5xx) rejects the download.
C10_OneRulePerResponse ==
  handled # NoResponse =>
    /\ handled.rule = "redirect" <=>
         (handled.status >= 300 /\ handled.status < 400 /\ handled.hasLocation)
    /\ handled.rule = "ok" <=> handled.status = 200
    /\ handled.rule \in {"redirect", "ok", "fail"}
    /\ handled.rule = "redirect" => (hop # NoHop /\ netRequests >= 2)
    /\ handled.rule = "fail" => (settled = "rejected" /\ req.st = "closed")
    /\ (handled.rule = "ok" /\ ~handled.complete) => req.st \in {"body", "closed"}

\* C10 witness: a 206 rejected the download
C10_Witness ==
  /\ handled.status = 206
  /\ handled.rule = "fail"
  /\ dlOutcome = "status"
  /\ settled = "rejected"

\* C11: once the timeout of the request has fired and rejected the download,
\* that request receives no further byte of the response.
C11_TimeoutAbortsDownload ==
  [][dlOutcome = "timeout" => req'.sent <= req.sent]_vars

\* the position of the main function, in the order of the steps of a run
\* that does not skip
StepRank(p) ==
  CASE p \in {"load", "check"} -> 0
    [] p \in {"mkdtemp", "mkdir"} -> 1
    [] p \in {"download", "await"} -> 2
    [] p = "extract" -> 3
    [] p = "place" -> 4
    [] p = "record" -> 5
    [] p = "catch" -> 6
    [] p = "finally" -> 7
    [] OTHER -> 8

\* the temp archive file holds the whole body of the last response, and the
\* request and the write stream are closed
ArchiveComplete ==
  /\ settled = "resolved"
  /\ req = ClosedRequest
  /\ archiveFile.code = "ok"
  /\ Len(archiveFile.content) = MaxChunks

\* C16: a run never steps back in the order temp directory, download,
\* extraction, placement, marker, cleanup; extraction and placement happen
\* with the archive file completely written and closed and the temp directory
\* in place; downloadWithProgress is called once, and a request is issued
\* only when none is open or in answer to a redirect; the marker is written
\* after all six entries have been attempted and before cleanup.
C16_StepsInOrder ==
  /\ [](/\ pc \in {"extract", "place", "record"} =>
             (ArchiveComplete /\ tempDir \in tmpRoot)
        /\ pc \in {"download", "await"} => tempDir \in tmpRoot
        /\ pc \in {"place", "record"} => extracted \subseteq present
        /\ markerWritten => bin = NumBinaries + 1
        /\ (pc \in {"done", "exited"} /\ markerWritten) => tempDir \notin tmpRoot)
  /\ [][/\ pc' # "load" => StepRank(pc') >= StepRank(pc)
        /\ netRequests' > netRequests =>
             \/ pc = "download" /\ req.st = "none" /\ settled = "none"
             \/ req.st = "sent" /\ handled'.rule = "redirect"
        /\ markerWritten' # markerWritten =>
             (pc = "record" /\ pc' = "finally" /\ tempDir \in tmpRoot)]_vars

\* C16 witness: a run that went through every step, with a redirect on the
\* way, and is about to clean up
C16_Witness ==
  /\ pc = "finally"
  /\ markerWritten
  /\ netRequests = 2
  /\ filesMovedCount = NumBinaries
  /\ ArchiveComplete
  /\ tempDir \in tmpRoot

\* C20: the process never ends while the promise of downloadWithProgress is
\* pending, and a run that did not skip ends with the marker written or with
\* status 1.
C20_DownloadSettles ==
  (pc = "exited" /\ pkgJson = "ok" /\ ~skipDownload) =>
    /\ settled # "pending"
    /\ markerWritten \/ exitCode = 1

\* the run is in its placement loop or at the record step, or was killed
\* there, with a member moved
MidPlacement ==
  /\ pc \in {"place", "record", "killed"}
  /\ filesMovedCount >= 1
  /\ failure = "none"
  /\ ~markerWritten

\* C17: a run interrupted after it moved a member and before the record
\* step has not written the marker: the marker is as the run found it, the
\* members moved so far are in place and the other destinations are as they
\* were.
C17_CrashLeavesMarkerUnwritten ==
  MidPlacement =>
    /\ versionFile = start.versionFile
    /\ \A b \in binaries :
         dest[b] = IF b < bin /\ b \in present THEN version ELSE start.dest[b]

\* C17 witness: killed with one member moved, another not yet, over a
\* project that had destinations and the marker of another version
C17_Witness ==
  /\ pc = "killed"
  /\ MidPlacement
  /\ filesMovedCount = 1
  /\ extracted # {}
  /\ start.versionFile = File(<<"2">>)
  /\ versionFile = File(<<"2">>)
  /\ \E b \in binaries : dest[b] = PreExisting
  /\ \E b \in binaries : dest[b] = version

\* C12: a publisher run in a tree with a manifest source missing never gets
\* to create the archive or to upload, and leaves the remote stores as it
\* found them; a run that ended on a missing source, on a failed tar or on a
\* failed upload ended with a non-zero status and created or replaced no
\* remote object; a run that ended with status 0 uploaded the archive.
C12_PublisherFailure ==
  /\ (pub.script # "none" /\ work.sources # binaries) =>
       /\ pub.pc \notin {"tar", "upload", "cleanup"}
       /\ ~pub.created /\ ~pub.uploaded
       /\ work.archives = pub.startWork.archives
       /\ remote = pub.startRemote
       /\ pub.pc = "exited" => pub.exit # 0
  /\ (pub.pc = "exited" /\ pub.failed \in {"source", "tar", "upload"}) =>
       (pub.exit # 0 /\ remote = pub.startRemote)
  /\ (pub.pc = "exited" /\ pub.exit = 0) =>
       (pub.created /\ pub.uploaded /\ work.sources = binaries)

\* C12 witness: the fourth source was missing: the first three were staged,
\* then the staging directory was removed and the script ended with status 1
C12_Witness ==
  /\ pub.pc = "exited"
  /\ pub.failed = "source"
  /\ pub.i = 4
  /\ pub.exit = 1
  /\ work.staging = NoStaging
  /\ ~pub.created
  /\ remote = pub.startRemote

\* the publisher's configuration is wrong: an environment variable of the S3
\* script is unset, or package.json is missing or has no version
ConfigError ==
  \/ pub.script = "s3" /\ ~pub.env
  \/ pub.script # "none" /\ work.pkg.code # "ok"

\* C13 (publisher): with a configuration error the script goes no further
\* than its checks, ends with status 1, and has changed nothing in the
\* working tree or in the remote stores.
C13_ConfigErrorsFatalFirst ==
  ConfigError =>
    /\ pub.pc \in {"env", "version", "exited"}
    /\ pub.pc = "exited" => pub.exit = 1
    /\ work = pub.startWork
    /\ remote = pub.startRemote

\* the member names of a script's SOURCES
SourceNames(script) == {SOURCES(script)[i].name : i \in 1..NumBinaries}

\* C14: every archive in a remote store holds exactly the six members of
\* the SOURCES of the script that uploaded it.
C14_ArchiveHoldsManifest ==
  \A o \in remote :
    /\ {m.name : m \in o.members} = SourceNames(o.store)
    /\ Cardinality(o.members) = NumBinaries

\* the run fetched an archive that a publisher uploaded for its version
FetchedPublished ==
  \E o \in Served(version) : present = Installable(o)

\* C15: an installer run that fetched the archive a publisher uploaded for
\* its version, and ended well, has placed all six destinations, each from
\* the member the publisher made of the source at that path, and recorded its
\* version.
C15_RoundTrip ==
  (pc = "exited" /\ markerWritten /\ FetchedPublished) =>
    /\ present = binaries
    /\ \A b \in binaries : dest[b] = version
    /\ versionFile = File(version)
    /\ \A o \in Served(version) :
         \A b \in Installable(o) : [name |-> BinName(b), src |-> b] \in o.members

\* C18: the marker changes in two steps only: the record step of an
\* installer run that did not skip, which writes that run's version and
\* after which the run ends with status 0, and the catch block of a run that
\* failed, which deletes it and after which the run ends with status 1; no
\* step of a publisher script and no run that skipped changes it.
C18_MarkerDiscipline ==
  /\ [](/\ markerWritten =>
             /\ versionFile = File(version)
             /\ exitCode = 0 /\ failure = "none"
             /\ pc \in {"finally", "done", "exited"}
        /\ skipDownload => (versionFile = start.versionFile /\ ~markerWritten)
        /\ (failure # "none" /\ pc \in {"finally", "done", "exited"}) =>
             (exitCode = 1 /\ versionFile = NoFile))
  /\ [][versionFile' # versionFile =>
          /\ pub' = pub /\ work' = work /\ remote' = remote
          /\ ~skipDownload
          /\ \/ /\ pc = "record" /\ pc' = "finally"
                /\ versionFile' = File(version)
                /\ markerWritten' /\ exitCode' = 0
             \/ /\ pc = "catch" /\ pc' = "finally"
                /\ versionFile' = NoFile
                /\ failure # "none" /\ exitCode' = 1]_vars

\* C18 witness: after a publisher run, an installer run that found the
\* marker of another version failed and deleted it
C18_Witness ==
  /\ pub.runs >= 1
  /\ pub.uploaded
  /\ pc = "exited"
  /\ start.versionFile = File(<<"2">>)
  /\ versionFile = NoFile
  /\ failure = "download"
  /\ exitCode = 1

\* the installer is between the creation and the removal of its temp
\* directory
UsesTempDir ==
  /\ tempDir # NoDir
  /\ pc \in {"mkdir", "download", "await", "extract", "place", "record",
             "catch", "finally"}

\* so is the second installer
OtherUsesTempDir ==
  other.pc \in {"download", "extract", "place", "record", "catch", "finally"}

\* the directories of os.tmpdir() a step creates or removes
TempDirsChanged == (tmpRoot' \ tmpRoot) \cup (tmpRoot \ tmpRoot')

\* C19: two installers running at the same time have distinct temp
\* directories; each one's directory stays in place, with the archive and the
\* extracted members in it, until its own finally block; a step of one
\* creates or removes no directory but its own and leaves the files in the
\* other's directory alone.
C19_TempDirsApart ==
  /\ [](/\ (UsesTempDir /\ OtherUsesTempDir) => tempDir # other.tempDir
        /\ UsesTempDir => tempDir \in tmpRoot
        /\ OtherUsesTempDir => other.tempDir \in tmpRoot)
  /\ [][/\ other' # other =>
             /\ TempDirsChanged \subseteq {other.tempDir, other'.tempDir}
             /\ UsesTempDir => tempDir \notin TempDirsChanged
             /\ archiveFile' = archiveFile /\ extracted' = extracted
        /\ other' = other =>
             /\ TempDirsChanged \subseteq {tempDir, tempDir'}
             /\ OtherUsesTempDir => other.tempDir \notin TempDirsChanged]_vars

\* C19 witness: the second installer has removed its directory while the
\* first, started after it, is still placing members from its own
C19_Witness ==
  /\ other.pc = "done"
  /\ other.tempDir = 1
  /\ tempDir = 2
  /\ pc = "place"
  /\ extracted # {}
  /\ archiveFile.code = "ok"
  /\ tmpRoot = {2}

\* C21: whenever the skip check passes for the current version, every one
\* of the six destination files came from the archive of that version.
C21_SkipMeansInstalled ==
  ShouldSkipDownload(versionFile, dest, version) =>
    \A b \in binaries : dest[b] = version

\* the run failed before the placement loop: temp-dir creation, the download
\* (rejected, or closed mid-body) or the extraction failed
EarlyFailure ==
  \/ failure \in {"mkdtemp", "mkdir", "download", "extract"}
  \/ dlOutcome \in {"status", "network", "timeout", "file", "aborted"}

\* C22: a run that fails before the placement step leaves every destination
\* file and every destination directory as it found them; of the project's
\* files only the marker may change, and only by being deleted.
C22_EarlyFailureLeavesDestinations ==
  EarlyFailure =>
    /\ dest = start.dest
    /\ destDirs = start.destDirs
    /\ versionFile \in {start.versionFile, NoFile}

\* an extraction failure in a project that had destination files and a marker:
\* the run has ended, the marker is gone, the destinations are as before
C22_Witness ==
  /\ pc = "exited"
  /\ failure = "extract"
  /\ exitCode = 1
  /\ \E b \in binaries : start.dest[b] = PreExisting
  /\ \E b \in binaries : start.dest[b] = NoBinary
  /\ start.versionFile # NoFile
  /\ versionFile = NoFile
  /\ dest = start.dest
  /\ destDirs = start.destDirs

\* the first process exited 0 after placing all six members
MainInstalledAll ==
  /\ pc = "exited"
  /\ exitCode = 0
  /\ markerWritten
  /\ filesMovedCount = NumBinaries

\* the second process ended after placing all six members and recording
OtherInstalledAll ==
  /\ other.pc = "done"
  /\ other.bin = NumBinaries + 1

\* C23: when two concurrent runs for the same version have both terminated
\* and at least one of them exited 0 after placing all six members, the
\* marker exists and holds that version.
C23_MarkerSurvivesConcurrentFailure ==
  (pc = "exited" /\ other.pc = "done" /\
   (MainInstalledAll \/ OtherInstalledAll)) =>
    versionFile = File(MarkerContent(version))

====
